---- MODULE Spec2Model ----
(***************************************************************************)
(* Model of the Code Context Graph engine of BE/py_helpers/ts_parse.py:    *)
(* source collection, regex symbol extraction, build_ccg and the two       *)
(* queries calls_of / defs_of.                                             *)
(*                                                                         *)
(* Python strings are modelled as sequences of one-character strings, so   *)
(* that id rendering (f"{kind}:{file}:{name}"), split(".") and endswith    *)
(* are computed the way the code computes them.  A Python dict is modelled *)
(* as the sequence of its <<key, value>> pairs in insertion order.         *)
(***************************************************************************)
EXTENDS Integers, Sequences, FiniteSets, TLC

VARIABLES
    tree,       \* the directory under the root path, as the operating system lists it
    exts_arg,   \* the exts argument of parse_sources: [given, exts]
    parsed,     \* the parse result [files]: the <<rel_path, table>> pairs in dict insertion order
    ccg,        \* the value returned by build_ccg: [nodes, edges]
    query,      \* the last query made: [op, on, symbol]
    answer,     \* the list the last query returned
    pc,         \* position of the run: "start" | "tables" | "parsed" | "built" | "asked"
    visited,    \* the dirpaths os.walk yielded during the last collection, in order
    reads,      \* the file reads of the last operation that opens files: [by, path, bytes, text]
    PARSER_CACHE, \* module-level _PARSER_CACHE: the language slugs that have a cached parser
    Parser,     \* module-level Parser: "None" when the tree_sitter import failed
    fs,         \* the directory save_text writes in: file name -> content
    writers,    \* the save_text calls: each one's position, temporary name and content
    observed    \* what the last reader of the target path got

engine_vars == <<tree, exts_arg, parsed, ccg, query, answer, pc>>
run_vars == <<visited, reads, PARSER_CACHE, Parser>>
io_vars == <<fs, writers, observed>>
vars == <<tree, exts_arg, parsed, ccg, query, answer, pc, run_vars, io_vars>>

-----------------------------------------------------------------------------
(* Bounds of the model *)

\* total number of list entries (declarations and call tokens) over all tables
MaxEntries == 3

\* number of save_text calls made on the path
MaxSaves == 2

-----------------------------------------------------------------------------
(* Strings *)

Range(s) == {s[i] : i \in 1..Len(s)}

Max(S) == CHOOSE x \in S : \A y \in S : y <= x

Colon == <<":">>
Dot == <<".">>

func == <<"f","u","n","c">>
class == <<"c","l","a","s","s">>
jac_node == <<"j","a","c","_","n","o","d","e">>
walker == <<"w","a","l","k","e","r">>
file_kind == <<"f","i","l","e">>
CALLS == <<"C","A","L","L","S">>

DotsOf(s) == {i \in 1..Len(s) : s[i] = "."}

\* s.split(".")[-1]
LastSegment(s) ==
    IF DotsOf(s) = {} THEN s ELSE SubSeq(s, Max(DotsOf(s)) + 1, Len(s))

\* s.split(".")[0]
FirstSegment(s) ==
    IF DotsOf(s) = {} THEN s
    ELSE SubSeq(s, 1, (CHOOSE i \in DotsOf(s) : \A j \in DotsOf(s) : i <= j) - 1)

\* s.endswith(suf)
EndsWith(s, suf) ==
    /\ Len(suf) <= Len(s)
    /\ SubSeq(s, Len(s) - Len(suf) + 1, Len(s)) = suf

RECURSIVE Flatten(_)
Flatten(ss) == IF ss = <<>> THEN <<>> ELSE Head(ss) \o Flatten(Tail(ss))

-----------------------------------------------------------------------------
(* build_ccg *)

EmptyTable ==
    [functions |-> <<>>, classes |-> <<>>, walkers |-> <<>>, nodes |-> <<>>, calls |-> <<>>]

\* _add_node: the node appended for a declaration
add_node(kind, file, name) ==
    [id    |-> kind \o Colon \o file \o Colon \o name,
     label |-> name \o <<" ", "(">> \o file \o <<")">>,
     kind  |-> kind,
     file  |-> file]

\* the nodes the first loop appends for one file, in the order it appends them
decl_nodes_of(file, info) ==
    [i \in 1..Len(info.functions) |-> add_node(func, file, info.functions[i])]
    \o [i \in 1..Len(info.classes) |-> add_node(class, file, info.classes[i])]
    \o [i \in 1..Len(info.nodes) |-> add_node(jac_node, file, info.nodes[i])]
    \o [i \in 1..Len(info.walkers) |-> add_node(walker, file, info.walkers[i])]

decl_nodes(files) ==
    Flatten([i \in 1..Len(files) |-> decl_nodes_of(files[i][1], files[i][2])])

\* func_index.get(name, []): one (file, kind) pair per _add_node("func", file, name) call
func_index_any_decl(files, name) ==
    Flatten([i \in 1..Len(files) |->
        LET fns == files[i][2].functions \o files[i][2].classes
        IN  Flatten([j \in 1..Len(fns) |->
                IF fns[j] = name THEN << <<files[i][1], func>> >> ELSE <<>>])])
func_index(files, name) ==
    Flatten([i \in 1..Len(files) |->
        LET fns == files[i][2].functions
        IN  Flatten([j \in 1..Len(fns) |->
                IF fns[j] = name THEN << <<files[i][1], func>> >> ELSE <<>>])])

\* callee = call.split(".")[-1]
callee_of_first(call) == FirstSegment(call)
callee_of(call) == LastSegment(call)

edge(src, dst) == [src |-> src, dst |-> dst, type |-> CALLS]

\* the edges the second loop appends for one call token of one file
resolve_no_local(files, file, info, call) ==
    LET callee  == callee_of(call)
        matches == func_index(files, callee)
    IN  IF Len(matches) = 1
        THEN << edge(file_kind \o Colon \o file,
                     func \o Colon \o matches[1][1] \o Colon \o callee) >>
        ELSE <<>>

resolve_first_match(files, file, info, call) ==
    LET callee  == callee_of(call)
        matches == func_index(files, callee)
    IN  IF callee \in Range(info.functions)
        THEN << edge(file_kind \o Colon \o file,
                     func \o Colon \o file \o Colon \o callee) >>
        ELSE IF Len(matches) >= 1
        THEN << edge(file_kind \o Colon \o file,
                     func \o Colon \o matches[1][1] \o Colon \o callee) >>
        ELSE <<>>

resolve(files, file, info, call) ==
    LET callee  == callee_of(call)
        matches == func_index(files, callee)
    IN  IF callee \in Range(info.functions)
        THEN << edge(file_kind \o Colon \o file,
                     func \o Colon \o file \o Colon \o callee) >>
        ELSE IF Len(matches) = 1
        THEN << edge(file_kind \o Colon \o file,
                     func \o Colon \o matches[1][1] \o Colon \o callee) >>
        ELSE <<>>

call_edges_as_files_arrive(files) ==
    Flatten([i \in 1..Len(files) |->
        Flatten([j \in 1..Len(files[i][2].calls) |->
            resolve(SubSeq(files, 1, i), files[i][1], files[i][2], files[i][2].calls[j])])])
call_edges(files) ==
    Flatten([i \in 1..Len(files) |->
        Flatten([j \in 1..Len(files[i][2].calls) |->
            resolve(files, files[i][1], files[i][2], files[i][2].calls[j])])])

\* the file nodes appended after the edges
file_nodes_none(files) == <<>>
file_nodes(files) ==
    [i \in 1..Len(files) |->
        [id    |-> file_kind \o Colon \o files[i][1],
         label |-> files[i][1],
         kind  |-> file_kind,
         file  |-> files[i][1]]]

\* uniq_dicts: keeps the first occurrence of each dict
uniq_dicts_keep_all(seq) == seq
RECURSIVE uniq_dicts(_)
uniq_dicts(seq) ==
    IF seq = <<>> THEN <<>>
    ELSE LET front == uniq_dicts(SubSeq(seq, 1, Len(seq) - 1))
             last  == seq[Len(seq)]
         IN  IF last \in Range(front) THEN front ELSE Append(front, last)

\* d.get("files", {}) of a dict that is either a parse result or a graph
get_files(d) == IF "files" \in DOMAIN d THEN d.files ELSE <<>>

\* d.get("edges", [])
get_edges(d) == IF "edges" \in DOMAIN d THEN d.edges ELSE <<>>

build_ccg(p) ==
    LET files == get_files(p)
    IN  [nodes |-> uniq_dicts(decl_nodes(files) \o file_nodes(files)),
         edges |-> uniq_dicts(call_edges(files))]

-----------------------------------------------------------------------------
(* Queries *)

calls_of_ccg(g, symbol) ==
    LET es == get_edges(g)
    IN  Flatten([i \in 1..Len(es) |->
            IF EndsWith(es[i].dst, Colon \o symbol) THEN << es[i].src >> ELSE <<>>])

calls_of_parsed(p, symbol) ==
    LET files == get_files(p)
        sym   == LastSegment(symbol)
    IN  Flatten([i \in 1..Len(files) |->
            Flatten([j \in 1..Len(files[i][2].calls) |->
                LET c == files[i][2].calls[j]
                IN  IF LastSegment(c) = sym
                    THEN << files[i][1] \o Colon \o c >> ELSE <<>>])])

calls_of(parsed_or_ccg, symbol) ==
    IF "edges" \in DOMAIN parsed_or_ccg
    THEN calls_of_ccg(parsed_or_ccg, symbol)
    ELSE calls_of_parsed(parsed_or_ccg, symbol)

defs_of(parsed_or_ccg, symbol) ==
    LET files == get_files(parsed_or_ccg)
        sym   == LastSegment(symbol)
    IN  Flatten([i \in 1..Len(files) |->
            LET info == files[i][2]
            IN  IF \/ sym \in Range(info.functions)
                   \/ sym \in Range(info.classes)
                   \/ sym \in Range(info.walkers)
                   \/ sym \in Range(info.nodes)
                THEN << files[i][1] >> ELSE <<>>])

-----------------------------------------------------------------------------
(* Characters *)

Lower == <<"a","b","c","d","e","f","g","h","i","j","k","l","m",
           "n","o","p","q","r","s","t","u","v","w","x","y","z">>
Upper == <<"A","B","C","D","E","F","G","H","I","J","K","L","M",
           "N","O","P","Q","R","S","T","U","V","W","X","Y","Z">>
Digits == {"0","1","2","3","4","5","6","7","8","9"}

\* [A-Za-z_]
IsIdentStart(c) == c \in Range(Lower) \cup Range(Upper) \cup {"_"}
\* \w, [A-Za-z0-9_]
IsWord(c) == IsIdentStart(c) \/ c \in Digits
\* \s
IsSpace(c) == c \in {" ", "\t", "\n"}

\* str.lower()
LowerChar(c) ==
    IF c \in Range(Upper) THEN Lower[CHOOSE i \in 1..26 : Upper[i] = c] ELSE c
lower(s) == [i \in 1..Len(s) |-> LowerChar(s[i])]

-----------------------------------------------------------------------------
(* Configuration *)

\* the keys of SUPPORTED
SUPPORTED == {<<".", "p", "y">>, <<".", "j", "a", "c">>}

python == <<"p", "y", "t", "h", "o", "n">>

\* SUPPORTED.get(ext): every key maps to "python"; None for any other extension
SUPPORTED_get(ext) ==
    IF ext \in SUPPORTED THEN [given |-> TRUE, slug |-> python]
    ELSE [given |-> FALSE, slug |-> <<>>]

MAX_FILE_BYTES == 1000000

EXCLUDE_DIRS ==
    {<<".", "g", "i", "t">>,
     <<".", "g", "i", "t", "h", "u", "b">>,
     <<".", "g", "i", "t", "l", "a", "b">>,
     <<"n", "o", "d", "e", "_", "m", "o", "d", "u", "l", "e", "s">>,
     <<"_", "_", "p", "y", "c", "a", "c", "h", "e", "_", "_">>,
     <<".", "v", "e", "n", "v">>,
     <<"v", "e", "n", "v">>,
     <<"d", "i", "s", "t">>,
     <<"b", "u", "i", "l", "d">>,
     <<".", "m", "y", "p", "y", "_", "c", "a", "c", "h", "e">>,
     <<".", "p", "y", "t", "e", "s", "t", "_", "c", "a", "c", "h", "e">>,
     <<".", "i", "d", "e", "a">>,
     <<".", "v", "s", "c", "o", "d", "e">>}

PY_KEYWORDS ==
    {<<"d", "e", "f">>,
     <<"c", "l", "a", "s", "s">>,
     <<"i", "f">>,
     <<"f", "o", "r">>,
     <<"w", "h", "i", "l", "e">>,
     <<"r", "e", "t", "u", "r", "n">>,
     <<"w", "i", "t", "h">>,
     <<"a", "w", "a", "i", "t">>,
     <<"e", "l", "i", "f">>,
     <<"e", "l", "s", "e">>,
     <<"m", "a", "t", "c", "h">>,
     <<"c", "a", "s", "e">>,
     <<"l", "a", "m", "b", "d", "a">>,
     <<"y", "i", "e", "l", "d">>,
     <<"e", "x", "c", "e", "p", "t">>,
     <<"f", "i", "n", "a", "l", "l", "y">>,
     <<"t", "r", "y">>,
     <<"p", "r", "i", "n", "t">>}

-----------------------------------------------------------------------------
(* The directory tree.  A directory is [files, dirs]: its file entries and  *)
(* its sub-directories, each in the order the operating system lists them. *)
(* A sub-directory is [name, dir].  A file entry is [name, text, pad, tail, *)
(* readable]: the file holds text, then pad bytes of filler lines that no   *)
(* pattern matches, then tail, one byte per character.                      *)

EmptyDir == [files |-> <<>>, dirs |-> <<>>]

Min(a, b) == IF a <= b THEN a ELSE b

\* the length of the file in bytes
file_size(entry) == Len(entry.text) + entry.pad + Len(entry.tail)

\* f.read(n): the first n bytes of the file.  The pad bytes of filler lines
\* are written as one newline, which no pattern of the extraction tells
\* apart from them (the filler matches nothing, and ^ matches after its last
\* newline as after this one).
first_bytes(entry, n) ==
    LET t == Len(entry.text)
        p == entry.pad
    IN  SubSeq(entry.text, 1, Min(n, t))
        \o (IF n > t /\ p > 0 THEN <<"\n">> ELSE <<>>)
        \o (IF n > t + p THEN SubSeq(entry.tail, 1, Min(n - t - p, Len(entry.tail))) ELSE <<>>)

\* include_exts=None
NoExts == [given |-> FALSE, exts |-> {}]

\* os.path.splitext(f)[1]: from the last dot, unless only dots precede it
splitext_ext(fname) ==
    IF DotsOf(fname) = {} THEN <<>>
    ELSE LET d == Max(DotsOf(fname))
         IN  IF \A i \in 1..(d - 1) : fname[i] = "." THEN <<>>
             ELSE SubSeq(fname, d, Len(fname))

\* os.path.join(dirpath, f), relative to the root
join(dirpath, fname) == IF dirpath = <<>> THEN fname ELSE dirpath \o <<"/">> \o fname

\* the files one directory contributes to results, in listing order
collect_here(dir, dirpath, include_exts) ==
    Flatten([i \in 1..Len(dir.files) |->
        LET ext == lower(splitext_ext(dir.files[i].name))
        IN  IF include_exts.given /\ ext \notin include_exts.exts THEN <<>>
            ELSE IF ext \in SUPPORTED
            THEN << [path |-> join(dirpath, dir.files[i].name), entry |-> dir.files[i]] >>
            ELSE <<>>])

\* dirnames[:] = [d for d in dirnames if d not in EXCLUDE_DIRS]
pruned_none(dirs) == dirs
pruned(dirs) == SelectSeq(dirs, LAMBDA d : d.name \notin EXCLUDE_DIRS)

\* collect_source_files: os.walk top-down over the pruned tree
RECURSIVE collect_source_files(_, _, _)
collect_source_files(dir, dirpath, include_exts) ==
    collect_here(dir, dirpath, include_exts)
    \o Flatten([i \in 1..Len(pruned(dir.dirs)) |->
          collect_source_files(pruned(dir.dirs)[i].dir,
                               join(dirpath, pruned(dir.dirs)[i].name),
                               include_exts)])

\* the dirpaths os.walk yields: each directory whose contents it lists, top-down
RECURSIVE walk(_, _)
walk(dir, dirpath) ==
    << dirpath >>
    \o Flatten([i \in 1..Len(pruned(dir.dirs)) |->
          walk(pruned(dir.dirs)[i].dir, join(dirpath, pruned(dir.dirs)[i].name))])

-----------------------------------------------------------------------------
(* Regex extraction *)

RECURSIVE SkipSpace(_, _)
\* \s* from position i: the first position that is not white space
SkipSpace(t, i) == IF i <= Len(t) /\ IsSpace(t[i]) THEN SkipSpace(t, i + 1) ELSE i

RECURSIVE SkipWord(_, _)
\* [A-Za-z0-9_]* from position i
SkipWord(t, i) == IF i <= Len(t) /\ IsWord(t[i]) THEN SkipWord(t, i + 1) ELSE i

\* [A-Za-z_][A-Za-z0-9_]* at position i: the position after it, or 0
IdentEnd(t, i) == IF i <= Len(t) /\ IsIdentStart(t[i]) THEN SkipWord(t, i + 1) ELSE 0

RECURSIVE DottedEnd(_, _)
\* (?:\.[A-Za-z_][A-Za-z0-9_]*)* from position e, greedy
DottedEnd(t, e) ==
    IF e <= Len(t) /\ t[e] = "." /\ IdentEnd(t, e + 1) # 0
    THEN DottedEnd(t, IdentEnd(t, e + 1))
    ELSE e

NoMatch == [ok |-> FALSE, group |-> <<>>, end |-> 0]

\* _CALL_RE.match at position i
CALL_RE(t, i) ==
    IF /\ (i = 1 \/ ~(IsWord(t[i - 1]) \/ t[i - 1] = "."))
       /\ IdentEnd(t, i) # 0
    THEN LET e == DottedEnd(t, IdentEnd(t, i))
             p == SkipSpace(t, e)
         IN  IF p <= Len(t) /\ t[p] = "("
             THEN [ok |-> TRUE, group |-> SubSeq(t, i, e - 1), end |-> p + 1]
             ELSE NoMatch
    ELSE NoMatch

HasAt(t, i, w) == i + Len(w) - 1 <= Len(t) /\ SubSeq(t, i, i + Len(w) - 1) = w

\* ^\s*<keyword>\s+([A-Za-z_][A-Za-z0-9_]*)\s*<closer> with re.M, at position i
DECL_RE(t, i, keyword, closers) ==
    LET p1 == SkipSpace(t, i)
        p2 == p1 + Len(keyword)
        p3 == SkipSpace(t, p2)
        ie == IdentEnd(t, p3)
        p4 == SkipSpace(t, ie)
    IN  IF /\ (i = 1 \/ t[i - 1] = "\n")
           /\ HasAt(t, p1, keyword)
           /\ p3 > p2
           /\ ie # 0
           /\ p4 <= Len(t)
           /\ t[p4] \in closers
        THEN [ok |-> TRUE, group |-> SubSeq(t, p3, ie - 1), end |-> p4 + 1]
        ELSE NoMatch

FUNC_RE(t, i) == DECL_RE(t, i, <<"d", "e", "f">>, {"("})
CLASS_RE(t, i) == DECL_RE(t, i, <<"c", "l", "a", "s", "s">>, {"(", ":"})
JAC_NODE_RE(t, i) == DECL_RE(t, i, <<"n", "o", "d", "e">>, {"{"})
JAC_WALKER_RE(t, i) == DECL_RE(t, i, <<"w", "a", "l", "k", "e", "r">>, {"{"})

\* the compiled pattern named re, matched at position i
match(re, t, i) ==
    CASE re = "_FUNC_RE"       -> FUNC_RE(t, i)
      [] re = "_CLASS_RE"      -> CLASS_RE(t, i)
      [] re = "_JAC_NODE_RE"   -> JAC_NODE_RE(t, i)
      [] re = "_JAC_WALKER_RE" -> JAC_WALKER_RE(t, i)
      [] re = "_CALL_RE"       -> CALL_RE(t, i)

RECURSIVE findall(_, _, _)
\* re.findall: the groups of the non-overlapping matches, scanning from i
findall(re, t, i) ==
    IF i > Len(t) THEN <<>>
    ELSE IF match(re, t, i).ok
    THEN << match(re, t, i).group >> \o findall(re, t, match(re, t, i).end)
    ELSE findall(re, t, i + 1)

\* uniq: de-dup while preserving order
uniq_keep_all(seq) == seq
RECURSIVE uniq(_)
uniq(seq) ==
    IF seq = <<>> THEN <<>>
    ELSE LET front == uniq(SubSeq(seq, 1, Len(seq) - 1))
             last  == seq[Len(seq)]
         IN  IF last \in Range(front) THEN front ELSE Append(front, last)

\* _read_text: f.read() of the whole file, or "" when the file cannot be opened
read_text_whatever(entry) == first_bytes(entry, file_size(entry))
read_text(entry) == IF entry.readable THEN first_bytes(entry, file_size(entry)) ELSE <<>>

\* the call tokens kept: those whose head is not a keyword
kept_calls(text) ==
    SelectSeq(findall("_CALL_RE", text, 1), LAMBDA c : FirstSegment(c) \notin PY_KEYWORDS)

extract_symbols_and_calls(entry) ==
    LET text == read_text(entry)
    IN  IF text = <<>> THEN EmptyTable
        ELSE [functions |-> uniq(findall("_FUNC_RE", text, 1)),
              classes   |-> uniq(findall("_CLASS_RE", text, 1)),
              walkers   |-> uniq(findall("_JAC_WALKER_RE", text, 1)),
              nodes     |-> uniq(findall("_JAC_NODE_RE", text, 1)),
              calls     |-> uniq(kept_calls(text))]

\* parse_sources: one table per collected file, inserted in collection order
parse_sources(root, exts) ==
    LET files == collect_source_files(root, <<>>, exts)
    IN  [files |-> [i \in 1..Len(files) |->
                      <<files[i].path, extract_symbols_and_calls(files[i].entry)>>]]

\* the reads parse_sources makes through _read_text: an open that succeeds
\* is followed by one f.read() to the end of the file
text_reads(root, exts) ==
    LET files == collect_source_files(root, <<>>, exts)
    IN  {[by    |-> "_read_text",
          path  |-> files[i].path,
          bytes |-> file_size(files[i].entry),
          text  |-> read_text(files[i].entry)] :
            i \in {k \in 1..Len(files) : files[k].entry.readable}}

-----------------------------------------------------------------------------
(* Inputs of the graph builder: per-file tables handed to build_ccg by a caller *)

f == <<"f">>
g == <<"g">>
o_f == <<"o", ".", "f">>
o_g == <<"o", ".", "g">>

FileNames == << <<"a">>, <<"b">>, <<"a", ":", "f">> >>

Fields == {"functions", "classes", "walkers", "nodes", "calls"}

\* the values a caller may list under each key
Values(fld) ==
    CASE fld = "functions" -> {f, g}
      [] fld = "classes"   -> {f, g}
      [] fld = "nodes"     -> {f, g}
      [] fld = "walkers"   -> {f, g}
      [] fld = "calls"     -> {f, g, o_f, o_g}

foo == <<"f", "o", "o">>
bar == <<"b", "a", "r">>
o_foo == <<"o", ".", "f", "o", "o">>

\* the symbols a caller asks about: the names of the corpus, bare and dotted
Symbols == IF tree = EmptyDir THEN {f, g, o_f, o_g} ELSE {foo, bar, o_foo}

NoTables == [i \in 1..Len(FileNames) |-> <<FileNames[i], EmptyTable>>]

AppendEntry(files, i, fld, v) ==
    [files EXCEPT ![i] = <<files[i][1], [files[i][2] EXCEPT ![fld] = Append(@, v)]>>]

Lists(info) == <<info.functions, info.classes, info.walkers, info.nodes, info.calls>>

EntriesIn(files) ==
    Len(Flatten(Flatten([i \in 1..Len(files) |-> Lists(files[i][2])])))

\* a directory without files, and a reader that has not opened anything
NoFs == [names |-> <<>>, data |-> <<>>]
NotRead == [open |-> FALSE, inode |-> 0, got |-> <<>>, done |-> FALSE]

\* no save_text call has been made and nothing has read the target
NoSaves == fs = NoFs /\ writers = <<>> /\ observed = NotRead

NoGraph == [nodes |-> <<>>, edges |-> <<>>]
NoQuery == [op |-> "none", on |-> "none", symbol |-> <<>>]

-----------------------------------------------------------------------------
(* The graph builder and the queries over caller-supplied tables *)

Init ==
    /\ tree = EmptyDir
    /\ exts_arg = NoExts
    /\ parsed = [files |-> NoTables]
    /\ ccg = NoGraph
    /\ query = NoQuery
    /\ answer = <<>>
    /\ pc = "tables"
    /\ visited = <<>>
    /\ reads = {}
    /\ PARSER_CACHE = {}
    /\ Parser = "None"
    /\ NoSaves

\* the caller lists one more name under one key of one file's table
AddEntry ==
    /\ pc = "tables"
    /\ EntriesIn(parsed.files) < MaxEntries
    /\ \E i \in 1..Len(parsed.files), fld \in Fields :
         \E v \in Values(fld) :
            parsed' = [files |-> AppendEntry(parsed.files, i, fld, v)]
    /\ UNCHANGED <<tree, exts_arg, ccg, query, answer, pc, run_vars, io_vars>>

BuildCcg ==
    /\ pc \in {"tables", "parsed"}
    /\ ccg' = build_ccg(parsed)
    /\ pc' = "built"
    /\ UNCHANGED <<tree, exts_arg, parsed, query, answer, run_vars, io_vars>>

CallsOf ==
    /\ pc = "built"
    /\ \E symbol \in Symbols, on \in {"parsed", "ccg"} :
        /\ query' = [op |-> "calls_of", on |-> on, symbol |-> symbol]
        /\ answer' = calls_of(IF on = "ccg" THEN ccg ELSE parsed, symbol)
    /\ pc' = "asked"
    /\ UNCHANGED <<tree, exts_arg, parsed, ccg, run_vars, io_vars>>

DefsOf ==
    /\ pc = "built"
    /\ \E symbol \in Symbols, on \in {"parsed", "ccg"} :
        /\ query' = [op |-> "defs_of", on |-> on, symbol |-> symbol]
        /\ answer' = defs_of(IF on = "ccg" THEN ccg ELSE parsed, symbol)
    /\ pc' = "asked"
    /\ UNCHANGED <<tree, exts_arg, parsed, ccg, run_vars, io_vars>>

Next == AddEntry \/ BuildCcg \/ CallsOf \/ DefsOf

Spec == Init /\ [][Next]_vars

-----------------------------------------------------------------------------
(* The whole pipeline over a directory tree: parse_sources, then build_ccg  *)
(* and the queries                                                          *)

TFoo == <<"d", "e", "f", " ", "f", "o", "o", "(", ")", ":", " ", "p", "a", "s", "s">>
TBar == <<"d", "e", "f", " ", "b", "a", "r", "(", ")", ":", " ", "f", "o", "o", "(", ")">>
TJac == <<"n", "o", "d", "e", " ", "n", " ", "{", "\n", "w", "a", "l", "k", "e", "r", " ", "w", " ", "{", "\n", " ", "f", "o", "o", "(", ")">>
TDot == <<"x", " ", "=", " ", "o", ".", "f", "o", "o", "(", "1", ")", "\n", "i", "f", " ", "(", "x", ")", ":", " ", "b", "a", "r", " ", "(", "2", ")">>
TDup == <<"f", "o", "o", "(", ")", "\n", "f", "o", "o", "(", ")", "\n", "o", ".", "f", "o", "o", "(", ")">>
TCls == <<"c", "l", "a", "s", "s", " ", "f", "o", "o", ":", "\n", " ", "d", "e", "f", " ", "b", "a", "r", "(", "s", ")", ":", " ", "p", "a", "s", "s">>

Texts == {<<>>, TFoo, TBar, TJac, TDot, TDup, TCls}

File(name, text, readable) ==
    [name |-> name, text |-> text, pad |-> 0, tail |-> <<>>, readable |-> readable]

\* a readable file longer than the cap: text, filler up to the cap, then tail
LongFile(name, text, tail) ==
    [name |-> name, text |-> text, pad |-> MAX_FILE_BYTES - Len(text), tail |-> tail,
     readable |-> TRUE]
SubDir(name, dir) == [name |-> name, dir |-> dir]

a_py == <<"a", ".", "p", "y">>
b_py == <<"b", ".", "p", "y">>

\* the sequences that list the members of S, each once
Orders(S) ==
    {o \in [1..Cardinality(S) -> S] : \A i, j \in 1..Cardinality(S) : i # j => o[i] # o[j]}

\* a root holding a.py and b.py only
FlatTrees ==
    {[files |-> o, dirs |-> <<>>] :
        o \in UNION {Orders({File(a_py, ta, ra), File(b_py, tb, TRUE)}) :
                        ta \in Texts, tb \in Texts, ra \in BOOLEAN}}

\* a root with a sub-directory, version-control metadata and a virtual environment
DeepTrees ==
    {[files |-> <<File(a_py, ta, TRUE), File(<<"r", ".", "m", "d">>, TFoo, TRUE)>>,
      dirs  |-> o] :
        ta \in Texts,
        o \in UNION {Orders({
                SubDir(<<"s", "u", "b">>,
                       [files |-> <<File(<<"c", ".", "j", "a", "c">>, tc, TRUE),
                                    File(<<"D", ".", "P", "Y">>, TBar, TRUE)>>,
                        dirs  |-> <<SubDir(<<".", "g", "i", "t">>,
                                           [files |-> <<File(<<"h", ".", "p", "y">>, TFoo, TRUE)>>,
                                            dirs  |-> <<>>])>>]),
                SubDir(<<"v", "e", "n", "v">>,
                       [files |-> <<File(<<"v", ".", "p", "y">>, TBar, TRUE)>>,
                        dirs  |-> <<>>])}) :
            tc \in Texts}}

\* a root holding one file longer than the cap, alone or after b.py
LongTrees ==
    {[files |-> before \o <<LongFile(a_py, th, tt)>>, dirs |-> <<>>] :
        th \in {<<>>, TFoo}, tt \in {TBar, TCls},
        before \in {<<>>, <<File(b_py, TBar, TRUE)>>}}

\* every file under the root, wherever it lies, as a path parse_file may be given
RECURSIVE all_files(_, _)
all_files(dir, dirpath) ==
    [i \in 1..Len(dir.files) |->
        [path |-> join(dirpath, dir.files[i].name), entry |-> dir.files[i]]]
    \o Flatten([i \in 1..Len(dir.dirs) |->
          all_files(dir.dirs[i].dir, join(dirpath, dir.dirs[i].name))])

InitPipeline ==
    /\ tree \in FlatTrees \cup DeepTrees \cup LongTrees
    /\ exts_arg = NoExts
    /\ parsed = [files |-> <<>>]
    /\ ccg = NoGraph
    /\ query = NoQuery
    /\ answer = <<>>
    /\ pc = "start"
    /\ visited = <<>>
    /\ reads = {}
    /\ PARSER_CACHE = {}
    /\ Parser \in {"None", "tree_sitter.Parser"}
    /\ NoSaves

\* the exts arguments of the runs: None, or a list of lowercased extensions
ExtsArgs ==
    {NoExts,
     [given |-> TRUE, exts |-> {<<".", "p", "y">>}],
     [given |-> TRUE, exts |-> {<<".", "j", "a", "c">>, <<".", "m", "d">>}]}

ParseSources ==
    /\ pc = "start"
    /\ \E e \in ExtsArgs :
        /\ exts_arg' = e
        /\ parsed' = parse_sources(tree, e)
        /\ visited' = walk(tree, <<>>)
        /\ reads' = text_reads(tree, e)
    /\ pc' = "parsed"
    /\ UNCHANGED <<tree, ccg, query, answer, PARSER_CACHE, Parser, io_vars>>

\* parse_file(path) on a file under the root
ParseFile ==
    /\ pc \in {"start", "parsed", "built"}
    /\ \E i \in 1..Len(all_files(tree, <<>>)), loads \in BOOLEAN :
        LET file == all_files(tree, <<>>)[i]
            lang == SUPPORTED_get(lower(splitext_ext(file.entry.name)))
        IN  IF ~lang.given \/ Parser = "None"
            THEN \* return None
                 /\ reads' = {}
                 /\ UNCHANGED PARSER_CACHE
            ELSE IF lang.slug \notin PARSER_CACHE /\ ~loads
            THEN \* get_parser raises: return None
                 /\ reads' = {}
                 /\ UNCHANGED PARSER_CACHE
            ELSE /\ PARSER_CACHE' = PARSER_CACHE \cup {lang.slug}
                 /\ reads' = IF file.entry.readable
                             THEN {[by    |-> "parse_file",
                                    path  |-> file.path,
                                    bytes |-> Min(file_size(file.entry), MAX_FILE_BYTES),
                                    text  |-> first_bytes(file.entry, MAX_FILE_BYTES)]}
                             ELSE {}
    /\ UNCHANGED <<tree, exts_arg, parsed, ccg, query, answer, pc, visited, Parser, io_vars>>

NextPipeline == ParseSources \/ ParseFile \/ BuildCcg \/ CallsOf \/ DefsOf

SpecPipeline == InitPipeline /\ [][NextPipeline]_vars

-----------------------------------------------------------------------------
(* Vocabulary of the properties *)

Names == {f, g}

Built == pc = "built"

TheFiles == get_files(parsed)
FileIdx == 1..Len(TheFiles)
PathOf(i) == TheFiles[i][1]
TableOf(i) == TheFiles[i][2]

\* file i's table declares function name
Declares(i, name) == name \in Range(TableOf(i).functions)

\* file i's table has a call token whose last segment is name
CallsLast(i, name) ==
    \E j \in 1..Len(TableOf(i).calls) : LastSegment(TableOf(i).calls[j]) = name

Declarers(name) == {i \in FileIdx : Declares(i, name)}

FileId(file) == <<"f","i","l","e",":">> \o file
FuncId(file, name) == <<"f","u","n","c",":">> \o file \o <<":">> \o name

StartsWith(s, pre) == Len(pre) <= Len(s) /\ SubSeq(s, 1, Len(pre)) = pre

EdgeSet == Range(ccg.edges)
NodeSet == Range(ccg.nodes)

HasEdge(src, dst) == \E e \in EdgeSet : e.src = src /\ e.dst = dst

\* the name a declaration node stands for, read back from its label "name (file)"
NodeName(n) == SubSeq(n.label, 1, Len(n.label) - Len(n.file) - 3)

HasDuplicate(seq) == \E i, j \in 1..Len(seq) : i # j /\ seq[i] = seq[j]

-----------------------------------------------------------------------------
(* C1 *)

\* C1: same-file precedence. For every file A whose table declares function
\* name and has a call token with last segment name, the built graph has the
\* edge file:A -> func:A:name and has no edge from file:A to func:B:name for
\* any other file B that declares name.
SameFilePrecedence ==
    Built =>
        \A A \in FileIdx, name \in Names :
            (Declares(A, name) /\ CallsLast(A, name)) =>
                /\ HasEdge(FileId(PathOf(A)), FuncId(PathOf(A), name))
                /\ \A B \in Declarers(name) \ {A} :
                      ~HasEdge(FileId(PathOf(A)), FuncId(PathOf(B), name))

\* a file declares and calls a function that two other files declare too
SameFilePrecedenceWitness ==
    /\ Built
    /\ \E A \in FileIdx, name \in Names :
          /\ Declares(A, name)
          /\ CallsLast(A, name)
          /\ Cardinality(Declarers(name)) >= 2

-----------------------------------------------------------------------------
(* C2 *)

\* C2: ambiguity suppresses edges. For every name declared as a function in
\* two or more files and every file C that calls it (last segment) without
\* declaring it, the built graph has no edge from file:C to any func:*:name.
AmbiguitySuppressesEdges ==
    Built =>
        \A C \in FileIdx, name \in Names :
            (/\ Cardinality(Declarers(name)) >= 2
             /\ CallsLast(C, name)
             /\ ~Declares(C, name)) =>
                \A e \in EdgeSet :
                    ~(/\ e.src = FileId(PathOf(C))
                      /\ StartsWith(e.dst, <<"f","u","n","c",":">>)
                      /\ EndsWith(e.dst, <<":">> \o name))

\* two files declare a function and a third, which does not, calls it
AmbiguityWitness ==
    /\ Built
    /\ \E C \in FileIdx, name \in Names :
          /\ Cardinality(Declarers(name)) >= 2
          /\ CallsLast(C, name)
          /\ ~Declares(C, name)

-----------------------------------------------------------------------------
(* C3 *)

-----------------------------------------------------------------------------
(* C4 *)

BareCalls(files) ==
    [i \in 1..Len(files) |->
        <<files[i][1],
          [files[i][2] EXCEPT !.calls =
              [j \in 1..Len(files[i][2].calls) |-> LastSegment(files[i][2].calls[j])]]>>]

IsDotted(tok) == DotsOf(tok) # {}

\* C4: dotted-call resolution. The edges of the built graph are exactly the
\* edges build_ccg produces when every call token is replaced by its last
\* segment alone.
DottedCallResolution ==
    Built => ccg.edges = build_ccg([files |-> BareCalls(TheFiles)]).edges

\* a dotted call token was resolved to an edge
DottedCallWitness ==
    /\ Built
    /\ \E i \in FileIdx :
          /\ \A j \in 1..Len(TableOf(i).calls) : IsDotted(TableOf(i).calls[j])
          /\ \E e \in EdgeSet : e.src = FileId(PathOf(i))

-----------------------------------------------------------------------------
(* C5 *)

\* the graph has a node of the given kind for the declaration name of file
HasNodeOfKind(kind, file, name) ==
    \E n \in NodeSet :
        /\ n.kind = kind
        /\ n.file = file
        /\ n.id = kind \o <<":">> \o file \o <<":">> \o name

\* C5: domain-entity kinds. Every name in a file's 'nodes' list is a graph
\* node of kind `node`, and every name in its 'walkers' list is a graph node
\* of kind `walker`.
DomainEntityKinds ==
    Built =>
        \A i \in FileIdx :
            /\ \A nd \in Range(TableOf(i).nodes) :
                  HasNodeOfKind(<<"n","o","d","e">>, PathOf(i), nd)
            /\ \A wk \in Range(TableOf(i).walkers) :
                  HasNodeOfKind(<<"w","a","l","k","e","r">>, PathOf(i), wk)

-----------------------------------------------------------------------------
(* C8 *)

\* C8: node and edge identity. In the built graph no two nodes share an id,
\* and no two edges share the triple (src, dst, relation).
NodeAndEdgeIdentity ==
    Built =>
        /\ \A i, j \in 1..Len(ccg.nodes) :
              i # j => ccg.nodes[i].id # ccg.nodes[j].id
        /\ \A i, j \in 1..Len(ccg.edges) :
              i # j => <<ccg.edges[i].src, ccg.edges[i].dst, ccg.edges[i].type>>
                       # <<ccg.edges[j].src, ccg.edges[j].dst, ccg.edges[j].type>>

\* a table lists the same function twice and the graph has an edge to it
NodeAndEdgeIdentityWitness ==
    /\ Built
    /\ \E i \in FileIdx, name \in Names :
          /\ HasDuplicate(SelectSeq(TableOf(i).functions, LAMBDA x : x = name))
          /\ \E e \in EdgeSet : e.dst = FuncId(PathOf(i), name)

-----------------------------------------------------------------------------
(* C9 *)

\* C9: only files originate edges. Every edge of the built graph has relation
\* CALLS, its source is the id of a node of kind file, and no node of another
\* kind has that id.
OnlyFilesOriginateEdges ==
    Built =>
        \A e \in EdgeSet :
            /\ e.type = <<"C","A","L","L","S">>
            /\ \E n \in NodeSet : n.kind = <<"f","i","l","e">> /\ n.id = e.src
            /\ \A n \in NodeSet : n.kind # <<"f","i","l","e">> => n.id # e.src

\* the built graph has an edge and a declaration node
OnlyFilesOriginateEdgesWitness ==
    /\ Built
    /\ EdgeSet # {}
    /\ \E n \in NodeSet : n.kind # <<"f","i","l","e">>

-----------------------------------------------------------------------------
(* C10 *)

\* the sources of the edges whose destination node is named name, in edge order
SourcesOfEdgesTo(name) ==
    Flatten([i \in 1..Len(ccg.edges) |->
        IF \E n \in NodeSet : n.id = ccg.edges[i].dst /\ NodeName(n) = name
        THEN << ccg.edges[i].src >> ELSE <<>>])

AskedCallersOnGraph ==
    pc = "asked" /\ query.op = "calls_of" /\ query.on = "ccg"

\* C10: callers_of over a CCG. For any symbol, bare or dotted, calls_of on the
\* built graph returns the sources of exactly the edges whose destination
\* node's name is the last segment of the symbol.
CallersOfOverGraph ==
    AskedCallersOnGraph => answer = SourcesOfEdgesTo(LastSegment(query.symbol))

-----------------------------------------------------------------------------
(* C6 *)

\* the root of the scenario: a.py holding `def foo(): pass` and b.py holding
\* `def bar(): foo()`, both readable, listed in either order
ScenarioRoot ==
    /\ tree.dirs = <<>>
    /\ Range(tree.files) = {File(a_py, TFoo, TRUE), File(b_py, TBar, TRUE)}

\* C6: end-to-end scenario. Extraction and build_ccg over the scenario root
\* yield exactly the nodes file:a.py, file:b.py, func:a.py:foo, func:b.py:bar
\* and exactly one edge, file:b.py -> func:a.py:foo with relation CALLS.
EndToEndScenario ==
    (Built /\ ScenarioRoot) =>
        /\ {n.id : n \in NodeSet} =
              {<<"f", "i", "l", "e", ":", "a", ".", "p", "y">>,
               <<"f", "i", "l", "e", ":", "b", ".", "p", "y">>,
               <<"f", "u", "n", "c", ":", "a", ".", "p", "y", ":", "f", "o", "o">>,
               <<"f", "u", "n", "c", ":", "b", ".", "p", "y", ":", "b", "a", "r">>}
        /\ Len(ccg.nodes) = 4
        /\ ccg.edges = << [src  |-> <<"f", "i", "l", "e", ":", "b", ".", "p", "y">>,
                          dst  |-> <<"f", "u", "n", "c", ":", "a", ".", "p", "y", ":", "f", "o", "o">>,
                          type |-> <<"C", "A", "L", "L", "S">>] >>

-----------------------------------------------------------------------------
(* C7 *)

RECURSIVE Reorderings(_)
\* the directories that hold what dir holds, listed in any order at every level
Reorderings(dir) ==
    LET n    == Len(dir.dirs)
        subs == {c \in [1..n -> UNION {{SubDir(dir.dirs[i].name, d) :
                                          d \in Reorderings(dir.dirs[i].dir)} : i \in 1..n}] :
                    \A i \in 1..n : c[i].name = dir.dirs[i].name}
    IN  {[files |-> fo, dirs |-> do] :
            fo \in Orders(Range(dir.files)),
            do \in UNION {Orders(Range(c)) : c \in subs}}

\* C7: arrival-order independence. The node sequence and the edge sequence
\* returned by parse_sources followed by build_ccg are the same for every
\* order in which the directory walk can deliver the same files.
ArrivalOrderIndependence ==
    Built =>
        \A t \in Reorderings(tree) :
            build_ccg(parse_sources(t, exts_arg)) = ccg

-----------------------------------------------------------------------------
(* C11 *)

\* the files whose table declares name as a function, class, node or walker
DeclaringFiles(name) ==
    {PathOf(i) : i \in {k \in FileIdx :
        \/ name \in Range(TableOf(k).functions)
        \/ name \in Range(TableOf(k).classes)
        \/ name \in Range(TableOf(k).nodes)
        \/ name \in Range(TableOf(k).walkers)}}

AskedDefs == pc = "asked" /\ query.op = "defs_of"

\* C11: definitions_of on either input form. Given the tables or given the
\* graph built from them, defs_of returns exactly the files whose table
\* declares a function, class, node or walker with the bare symbol name,
\* each once.
DefinitionsOfEitherForm ==
    AskedDefs =>
        /\ Range(answer) = DeclaringFiles(LastSegment(query.symbol))
        /\ ~HasDuplicate(answer)

-----------------------------------------------------------------------------
(* C18 *)

\* C18: no dangling edges. In every graph build_ccg returns, the src of every
\* edge is the id of a file node of the returned node list and the dst is the
\* id of a func node of the returned node list.
NoDanglingEdges ==
    Built =>
        \A e \in EdgeSet :
            /\ \E n \in NodeSet : n.id = e.src /\ n.kind = file_kind
            /\ \E n \in NodeSet : n.id = e.dst /\ n.kind = func

\* a graph with a same-file edge and a cross-file edge, next to a class that
\* has the name of the called function
NoDanglingEdgesWitness ==
    /\ Built
    /\ \E i, j \in FileIdx :
        /\ i # j
        /\ HasEdge(FileId(PathOf(i)), FuncId(PathOf(j), f))
        /\ f \in Range(TableOf(i).classes)

-----------------------------------------------------------------------------
(* C19 *)

\* C19: set-level order independence. For every ordering of the same
\* file-to-table mapping build_ccg returns the same set of nodes and the same
\* set of edges.
SetLevelOrderIndependence ==
    Built =>
        \A o \in Orders(Range(TheFiles)) :
            LET other == build_ccg([files |-> o])
            IN  /\ Range(other.nodes) = NodeSet
                /\ Range(other.edges) = EdgeSet

\* a call in the first file resolved to a function that only a later file declares
SetLevelOrderIndependenceWitness ==
    /\ Built
    /\ \E i, j \in FileIdx :
        /\ i < j
        /\ Declarers(g) = {j}
        /\ CallsLast(i, g)
        /\ HasEdge(FileId(PathOf(i)), FuncId(PathOf(j), g))

-----------------------------------------------------------------------------
(* C17 *)

\* the files of the run with their contents, in collection order
Collected == collect_source_files(tree, <<>>, exts_arg)

Parsed == pc = "parsed"

\* the names matched for one list in the text read from entry, one per match, in
\* the order of the matches; for calls, the call references (keyword heads are
\* not call references)
Matched(entry, fld) ==
    LET text == read_text(entry)
    IN  CASE fld = "functions" -> findall("_FUNC_RE", text, 1)
          [] fld = "classes"   -> findall("_CLASS_RE", text, 1)
          [] fld = "walkers"   -> findall("_JAC_WALKER_RE", text, 1)
          [] fld = "nodes"     -> findall("_JAC_NODE_RE", text, 1)
          [] fld = "calls"     -> kept_calls(text)

FirstMatch(raw, name) == CHOOSE i \in 1..Len(raw) : raw[i] = name /\ \A j \in 1..(i - 1) : raw[j] # name

\* C17: symbol table de-duplication. Each of the five lists of every table
\* has no repeated entry, holds exactly the distinct names matched in the
\* text, and orders them by the position of their first match.
SymbolTableDeduplication ==
    Parsed =>
        \A i \in FileIdx : \A fld \in Fields :
            LET list == TableOf(i)[fld]
                raw  == Matched(Collected[i].entry, fld)
            IN  /\ ~HasDuplicate(list)
                /\ Range(list) = Range(raw)
                /\ \A a, b \in 1..Len(list) :
                      a < b => FirstMatch(raw, list[a]) < FirstMatch(raw, list[b])

\* a file whose text calls foo twice and then o.foo
SymbolTableDeduplicationWitness ==
    /\ Parsed
    /\ \E i \in FileIdx :
        /\ HasDuplicate(Matched(Collected[i].entry, "calls"))
        /\ TableOf(i).calls = <<foo, o_foo>>

-----------------------------------------------------------------------------
(* C12 *)

\* collected file i is empty or cannot be read
EmptyOrUnreadable(i) == ~Collected[i].entry.readable \/ file_size(Collected[i].entry) = 0

\* C12: empty or unreadable input. A collected file that is empty or whose
\* read fails gets a table with all five lists empty, and in the graph built
\* from the run it has its own file node, no other node, and is the source of
\* no edge.
EmptyOrUnreadableInput ==
    Built =>
        \A i \in FileIdx :
            EmptyOrUnreadable(i) =>
                /\ TableOf(i) = EmptyTable
                /\ {n \in NodeSet : n.file = PathOf(i)} =
                       {[id    |-> FileId(PathOf(i)),
                         label |-> PathOf(i),
                         kind  |-> file_kind,
                         file  |-> PathOf(i)]}
                /\ \A e \in EdgeSet : e.src # FileId(PathOf(i))

\* a run with a file that cannot be read though it holds declarations, next to
\* a file that yields an edge
EmptyOrUnreadableInputWitness ==
    /\ Built
    /\ EdgeSet # {}
    /\ \E i \in FileIdx :
        /\ ~Collected[i].entry.readable
        /\ Collected[i].entry.text = TBar

-----------------------------------------------------------------------------
(* C15 *)

RECURSIVE Components(_)
\* the names between the "/" separators of a path, in order
Components(path) ==
    LET seps == {i \in 1..Len(path) : path[i] = "/"}
    IN  IF seps = {} THEN (IF path = <<>> THEN <<>> ELSE << path >>)
        ELSE LET s == CHOOSE i \in seps : \A j \in seps : i <= j
             IN  << SubSeq(path, 1, s - 1) >> \o Components(SubSeq(path, s + 1, Len(path)))

\* the directory names on the way from the root to the file at path
DirsAbove(path) == {Components(path)[k] : k \in 1..(Len(Components(path)) - 1)}

BaseName(path) == Components(path)[Len(Components(path))]

Collects == pc \in {"parsed", "built", "asked"}

\* C15: exclusion pruning. No returned path lies under a directory whose name
\* is in the exclusion set, the walk lists the contents of no such directory,
\* and every returned path has a supported extension that, when an allow-list
\* is given, is in the allow-list (extensions compared in lower case).
ExclusionPruning ==
    Collects =>
        /\ \A i \in FileIdx :
            /\ DirsAbove(PathOf(i)) \cap EXCLUDE_DIRS = {}
            /\ lower(splitext_ext(BaseName(PathOf(i)))) \in SUPPORTED
            /\ exts_arg.given => lower(splitext_ext(BaseName(PathOf(i)))) \in exts_arg.exts
        /\ \A k \in 1..Len(visited) : Range(Components(visited[k])) \cap EXCLUDE_DIRS = {}

\* a walk with an allow-list over a tree that has an excluded directory at the
\* root and another one deeper, which returned a file of a sub-directory
ExclusionPruningWitness ==
    /\ Collects
    /\ exts_arg.given
    /\ \E i \in FileIdx : DirsAbove(PathOf(i)) # {}
    /\ \E k \in 1..Len(all_files(tree, <<>>)) :
          Len(Components(all_files(tree, <<>>)[k].path)) = 3
          /\ DirsAbove(all_files(tree, <<>>)[k].path) \cap EXCLUDE_DIRS # {}
    /\ \E k \in 1..Len(all_files(tree, <<>>)) :
          Len(Components(all_files(tree, <<>>)[k].path)) = 2
          /\ DirsAbove(all_files(tree, <<>>)[k].path) \cap EXCLUDE_DIRS # {}
    /\ Len(visited) = 2

-----------------------------------------------------------------------------
(* C13 *)

\* the file entry at a path under the root
EntryAt(path) ==
    LET files == all_files(tree, <<>>)
    IN  files[CHOOSE i \in 1..Len(files) : files[i].path = path].entry

\* C13: per-file byte cap. Every file read of the analysis, by _read_text or
\* by parse_file, consumes at most MAX_FILE_BYTES bytes and hands on the
\* first MAX_FILE_BYTES bytes of the file when the file is longer.
PerFileByteCap ==
    \A r \in reads :
        /\ r.bytes <= MAX_FILE_BYTES
        /\ r.text = first_bytes(EntryAt(r.path), MAX_FILE_BYTES)

-----------------------------------------------------------------------------
(* C14 *)

\* C14: statelessness across runs. After any sequence of engine operations
\* the module-level state equals its initial value: _PARSER_CACHE is empty.
StatelessAcrossRuns == PARSER_CACHE = {}

-----------------------------------------------------------------------------
(* save_text of BE/py_helpers/io_utils.py on one path, with a reader.       *)
(* fs.names maps each file name of the directory to its inode, fs.data     *)
(* holds the bytes of every inode; name 0 is the path given to save_text,  *)
(* name k > 0 the temporary file of the k-th call.                         *)

Target == 0

\* the contents callers pass, and the content the path may hold beforehand
Contents == {<<"x", "x">>, <<"y", "y">>}
Previous == <<"o", "o">>

\* tempfile.mkstemp(dir=...): a name that no file of the directory has
mkstemp_in_place(w) == Target
mkstemp(w) == w

\* os.replace(src, dst): dst names the inode of src, src is gone, in one step
replace(names, src, dst) ==
    [n \in (DOMAIN names \ {src}) \cup {dst} |-> IF n = dst THEN names[src] ELSE names[n]]

InitSave ==
    /\ tree = EmptyDir
    /\ exts_arg = NoExts
    /\ parsed = [files |-> <<>>]
    /\ ccg = NoGraph
    /\ query = NoQuery
    /\ answer = <<>>
    /\ pc = "start"
    /\ visited = <<>>
    /\ reads = {}
    /\ PARSER_CACHE = {}
    /\ Parser = "None"
    /\ fs \in {[names |-> <<>>, data |-> <<>>],
               [names |-> (Target :> 1), data |-> <<Previous>>]}
    /\ writers = <<>>
    /\ observed = NotRead

\* save_text(path, content) is called; ensure_dirs has made the directory
SaveText ==
    /\ Len(writers) < MaxSaves
    /\ \E content \in Contents :
        writers' = Append(writers, [at |-> "mkstemp", content |-> content, tmp |-> 0, written |-> 0])
    /\ UNCHANGED <<fs, observed, engine_vars, run_vars>>

\* fd, tmp_path = tempfile.mkstemp(dir=os.path.dirname(path)): a new empty file
Mkstemp(w) ==
    /\ writers[w].at = "mkstemp"
    /\ fs' = [names |-> [n \in DOMAIN fs.names \cup {mkstemp(w)} |->
                            IF n = mkstemp(w) THEN Len(fs.data) + 1 ELSE fs.names[n]],
              data  |-> Append(fs.data, <<>>)]
    /\ writers' = [writers EXCEPT ![w].at = "write", ![w].tmp = mkstemp(w)]
    /\ UNCHANGED <<observed, engine_vars, run_vars>>

\* f.write(content) and the flushes: the bytes reach the temporary file one by one
Write(w) ==
    /\ writers[w].at = "write"
    /\ writers[w].written < Len(writers[w].content)
    /\ LET inode == fs.names[writers[w].tmp]
           byte  == writers[w].content[writers[w].written + 1]
       IN  fs' = [fs EXCEPT !.data[inode] = Append(@, byte)]
    /\ writers' = [writers EXCEPT ![w].written = @ + 1]
    /\ UNCHANGED <<observed, engine_vars, run_vars>>

\* the with block ends: the file is closed with all its bytes written
Close(w) ==
    /\ writers[w].at = "write"
    /\ writers[w].written = Len(writers[w].content)
    /\ writers' = [writers EXCEPT ![w].at = "replace"]
    /\ UNCHANGED <<fs, observed, engine_vars, run_vars>>

\* os.replace(tmp_path, path); return path
Replace(w) ==
    /\ writers[w].at = "replace"
    /\ fs' = [fs EXCEPT !.names = replace(fs.names, writers[w].tmp, Target)]
    /\ writers' = [writers EXCEPT ![w].at = "returned"]
    /\ UNCHANGED <<observed, engine_vars, run_vars>>

\* the call fails where it stands: mkstemp, a write or os.replace raises, or
\* the process dies; whatever it has written stays
Raise(w) ==
    /\ writers[w].at \in {"mkstemp", "write", "replace"}
    /\ writers' = [writers EXCEPT ![w].at = "raised"]
    /\ UNCHANGED <<fs, observed, engine_vars, run_vars>>

\* a reader opens the path
ReadOpen ==
    /\ ~observed.open
    /\ Target \in DOMAIN fs.names
    /\ observed' = [open |-> TRUE, inode |-> fs.names[Target], got |-> <<>>, done |-> FALSE]
    /\ UNCHANGED <<fs, writers, engine_vars, run_vars>>

\* the reader reads the next byte of the file it opened, or reaches its end
ReadNext ==
    /\ observed.open
    /\ IF Len(observed.got) < Len(fs.data[observed.inode])
       THEN observed' = [observed EXCEPT !.got = Append(@, fs.data[observed.inode][Len(@) + 1])]
       ELSE observed' = [observed EXCEPT !.open = FALSE, !.done = TRUE]
    /\ UNCHANGED <<fs, writers, engine_vars, run_vars>>

NextSave ==
    \/ SaveText
    \/ \E w \in 1..Len(writers) : Mkstemp(w)
    \/ \E w \in 1..Len(writers) : Write(w)
    \/ \E w \in 1..Len(writers) : Close(w)
    \/ \E w \in 1..Len(writers) : Replace(w)
    \/ \E w \in 1..Len(writers) : Raise(w)
    \/ ReadOpen
    \/ ReadNext

SpecSave == InitSave /\ [][NextSave]_vars

-----------------------------------------------------------------------------
(* C16 *)

\* the contents passed to the save_text calls made so far
Passed == {writers[w].content : w \in 1..Len(writers)}

\* what the path holds
AtTarget == fs.data[fs.names[Target]]

\* C16: atomic text write. Under every interleaving of save_text calls on one
\* path with a reader of the path, failed calls included, the file at the
\* path holds its complete previous content or the complete content passed to
\* one of the calls, and that is what a reader gets.
AtomicTextWrite ==
    /\ Target \in DOMAIN fs.names => AtTarget \in {Previous} \cup Passed
    /\ observed.done => observed.got \in {Previous} \cup Passed

\* two calls with different contents, one returned and one failed after
\* writing part of its content, and a reader that opened the path before the
\* replacement and finished after it
AtomicTextWriteWitness ==
    /\ Len(writers) = 2
    /\ writers[1].content # writers[2].content
    /\ \E w, v \in 1..2 :
        /\ writers[w].at = "returned"
        /\ writers[v].at = "raised"
        /\ writers[v].written = 1
        /\ AtTarget = writers[w].content
    /\ observed.done
    /\ observed.got = Previous

====
